---- MODULE Spec2Model ----
(***************************************************************************)
(* Model of scripts/ig_reels_scheduler.py: one run of main() loads the     *)
(* CSV manifest, walks the rows in order, takes every due row through      *)
(* create_reel_container / poll_container_ready / publish_container, and   *)
(* rewrites the manifest when a row was flipped to posted.  Exceptions     *)
(* raised inside the loop are not caught anywhere, so they end the run.    *)
(***************************************************************************)
EXTENDS Integers, Sequences, FiniteSets, TLC

VARIABLES
    manifest,      \* the CSV file, as csv.DictReader would return its rows
    wall,          \* wall clock at the start of the run, seconds after 2026-01-01 10:00 IST
    POLL_INTERVAL, \* int(os.getenv("POLL_INTERVAL_SECONDS", "8"))
    POLL_TIMEOUT,  \* int(os.getenv("POLL_TIMEOUT_SECONDS", "180"))
    run,           \* number of the current run of main()
    pc,            \* position of the run
    rows,          \* main(): the in-memory list of row dicts
    loaded,        \* the rows exactly as this run read them (history)
    now_ist,       \* main(): now truncated to the minute, minutes after 2026-01-01 10:00 IST
    changed,       \* main(): the dirty flag
    idx,           \* position of the for loop in rows (1-based)
    container_id,  \* main(): id returned by create_reel_container, 0 when none
    clock,         \* time.time(), in seconds after the moment the current poll began
    start,         \* poll_container_ready: start
    status,        \* poll_container_ready: status of the last response
    err,           \* exception that ended the run, "" when none
    calls,         \* remote API requests issued by this run, in order (history)
    published,     \* rows whose publish_container call returned in this run (history)
    writes,        \* number of times this run opened the manifest for writing (history)
    pubCount,      \* per row, successful publish_container calls over all runs (history)
    nextCid,       \* remote side: number of containers created for this run so far
    prev_end,      \* how the previous run ended: "none", "done", "failed" (an exception of
                   \* the remote API) or "raised" (another exception) (history)
    prev_now,      \* now_ist of the previous run (history)
    prev_idx,      \* row whose remote call ended the previous run, 0 when none (history)
    script,        \* remote side: what the current container will answer to status queries
    served,        \* remote side: status queries answered for the current container
    exact          \* TRUE while time.time() advanced only by time.sleep(POLL_INTERVAL) in this poll

vars == <<manifest, wall, POLL_INTERVAL, POLL_TIMEOUT, run, pc, rows, loaded, now_ist,
          changed, idx, container_id, clock, start, status, err, calls, published,
          writes, pubCount, nextCid, prev_end, prev_now, prev_idx, script,
          served, exact>>

----------------------------------------------------------------------------
(* Bounds of the model *)

MaxRows == 2        \* longest manifest
MaxPending == 2     \* a container answers at most MaxPending queries before its final answer
MaxRuns == 2        \* successive runs of main()

(* Values of the configuration *)

DefaultPollInterval == 8
DefaultPollTimeout == 180
TestPollTimeout == 20

\* a status request takes one of these numbers of seconds
ReqDelays == {0, 4}

\* the first run starts at this wall-clock time, the next run starts
\* one of these numbers of seconds after the previous one started
StartTimes == {30}
Waits == {0, 60}

----------------------------------------------------------------------------
(* Python values *)

NONE == "<None>"          \* Python None: restval of csv.DictReader for a short row
ABSENT == "<absent>"      \* the key is not in the dict: the header has no such column

Columns == {"posted", "scheduled_time_ist", "video_url", "caption", "share_to_feed", "cover_url"}

\* dict.get(key, default)
Get(row, key, default) == IF row[key] = ABSENT THEN default ELSE row[key]

\* str(s)
Str(s) == IF s = NONE THEN "None" ELSE s

\* str.strip() on the strings of the model
Strip(s) ==
    CASE s = " Yes " -> "Yes"
      [] s = "   " -> ""
      [] s = " 2026-01-01 10:01 " -> "2026-01-01 10:01"
      [] OTHER -> s

\* str.lower() on the strings of the model
Lower(s) ==
    CASE s = "Yes" -> "yes"
      [] s = "TRUE" -> "true"
      [] s = "None" -> "none"
      [] OTHER -> s

parse_bool(s) == Lower(Strip(Str(s))) \in {"1", "true", "yes", "y"}

\* datetime.strptime(s, "%Y-%m-%d %H:%M"): the strings it accepts, and the
\* minute after 2026-01-01 10:00 each denotes
StrptimeOK(s) == s \in {"2026-01-01 10:00", "2026-01-01 10:01", "2026-01-01 10:02"}

Strptime(s) ==
    CASE s = "2026-01-01 10:00" -> 0
      [] s = "2026-01-01 10:01" -> 1
      [] s = "2026-01-01 10:02" -> 2

\* line 90 raises for a string strptime rejects; for a string ending in
\* ":00Z-legacy" it raises as well (ZoneInfo has no localize)
EndsWithLegacy(s) == s = "2026-01-01 10:00:00Z-legacy"

SchedParses(s) == ~EndsWithLegacy(s) /\ StrptimeOK(s)

\* csv.DictWriter writes None as the empty string
CsvField(v) == IF v = NONE THEN "" ELSE v

\* bug: the posted column is rewritten as true/false for every row
WriteRowsNormalised(rs) ==
    [j \in 1..Len(rs) |->
        [k \in Columns |->
            IF k = "posted"
            THEN (IF parse_bool(rs[j][k]) THEN "true" ELSE "false")
            ELSE CsvField(rs[j][k])]]

WriteRows(rs) == [j \in 1..Len(rs) |-> [k \in Columns |-> CsvField(rs[j][k])]]

----------------------------------------------------------------------------
(* Manifests *)

FullRow(p, s) ==
    [posted |-> p, scheduled_time_ist |-> s, video_url |-> "https://cdn/a.mp4",
     caption |-> "A", share_to_feed |-> "true", cover_url |-> ""]

ShortRow(p) ==
    [posted |-> p, scheduled_time_ist |-> NONE, video_url |-> NONE,
     caption |-> NONE, share_to_feed |-> NONE, cover_url |-> NONE]

\* Rows of a manifest whose header has the six columns.  A row is full or
\* short (csv.DictReader fills what it lacks with None); rows with more fields
\* than the header, and headers without the posted column, are not modelled.
SampleRows ==
    { FullRow(" Yes ", "2026-01-01 10:00"),
      FullRow("false", "2026-01-01 10:00"),
      FullRow("", " 2026-01-01 10:01 "),
      FullRow("no", "   "),
      FullRow("false", "01/01/2026 10:00"),
      FullRow("false", "2026-01-01 10:00:00Z-legacy"),
      ShortRow("TRUE"),
      ShortRow("false"),
      [FullRow("false", "2026-01-01 10:00") EXCEPT !.cover_url = NONE] }

\* a header without the scheduled_time_ist column
DropSched(r) == [r EXCEPT !.scheduled_time_ist = ABSENT]

SeqsUpTo(S, n) == UNION {[1..m -> S] : m \in 0..n}

Manifests ==
    SeqsUpTo(SampleRows, MaxRows)
      \cup {[j \in 1..Len(m) |-> DropSched(m[j])] : m \in SeqsUpTo(SampleRows, 1)}

----------------------------------------------------------------------------
(* Remote API *)

\* status_code of a response: the documented values, an undocumented one, or
\* none at all (.get returns None)
StatusCodes == {"FINISHED", "ERROR", "EXPIRED", "IN_PROGRESS", "PUBLISHED", NONE}

Terminal == {"FINISHED", "ERROR", "EXPIRED"}

Busy == StatusCodes \ Terminal

HTTPError == "<HTTPError>"

\* A container answers `pending` status queries with its `busy` code and every
\* later one with `final`: a status code, or a transport or HTTP error.
Scripts ==
    {sc \in [pending : 0..MaxPending, busy : Busy, final : StatusCodes \cup {HTTPError}] :
        /\ sc.pending = 0 => sc.busy = "IN_PROGRESS"
        /\ sc.final \in Busy => sc.pending = 0}

NoScript == [pending |-> 0, busy |-> "IN_PROGRESS", final |-> "IN_PROGRESS"]

\* the answer to the k-th status query
Response(sc, k) == IF k <= sc.pending THEN sc.busy ELSE sc.final

Call(op, j, cid) == [op |-> op, row |-> j, cid |-> cid]

RemoteErrors == {"CreateError", "TransportError", "RuntimeError", "TimeoutError", "PublishError"}

----------------------------------------------------------------------------
InitWith(ms, timeout) ==
    /\ manifest \in ms
    /\ wall \in StartTimes
    /\ POLL_INTERVAL = DefaultPollInterval
    /\ POLL_TIMEOUT = timeout
    /\ run = 1
    /\ pc = "start"
    /\ rows = <<>>
    /\ loaded = <<>>
    /\ now_ist = 0
    /\ changed = FALSE
    /\ idx = 0
    /\ container_id = 0
    /\ clock = 0
    /\ start = 0
    /\ status = ""
    /\ err = ""
    /\ calls = <<>>
    /\ published = {}
    /\ writes = 0
    /\ pubCount = [j \in 1..Len(manifest) |-> 0]
    /\ nextCid = 0
    /\ prev_end = "none"
    /\ prev_now = 0
    /\ prev_idx = 0
    /\ script = NoScript
    /\ served = 0
    /\ exact = TRUE

\* POLL_TIMEOUT_SECONDS=20
Init == InitWith(Manifests, TestPollTimeout)

\* manifests of at most one record, under the default configuration as well
InitSingle ==
    \E t \in {TestPollTimeout, DefaultPollTimeout} :
        InitWith({m \in Manifests : Len(m) <= 1}, t)

----------------------------------------------------------------------------
(* main(): loading *)

cfg == <<POLL_INTERVAL, POLL_TIMEOUT>>
prev == <<prev_end, prev_now, prev_idx>>
hist == <<pubCount, nextCid, prev>>
remote == <<script, served>>
poll == <<container_id, clock, start, status, exact, remote>>

\* bug: now is rounded to the nearest minute instead of truncated
LoadRounded ==
    /\ pc = "start"
    /\ rows' = manifest
    /\ loaded' = manifest
    /\ now_ist' = (wall + 30) \div 60
    /\ changed' = FALSE
    /\ idx' = 1
    /\ pc' = "loop"
    /\ UNCHANGED <<manifest, wall, cfg, run, poll, err, calls, published, writes, hist>>

\* bug: the rows are walked last to first
LoadReversed ==
    /\ pc = "start"
    /\ rows' = [n \in 1..Len(manifest) |-> manifest[Len(manifest) + 1 - n]]
    /\ loaded' = manifest
    /\ now_ist' = wall \div 60
    /\ changed' = FALSE
    /\ idx' = 1
    /\ pc' = "loop"
    /\ UNCHANGED <<manifest, wall, cfg, run, poll, err, calls, published, writes, hist>>

\* lines 71-80
Load ==
    /\ pc = "start"
    /\ rows' = manifest
    /\ loaded' = manifest
    /\ now_ist' = wall \div 60
    /\ changed' = FALSE
    /\ idx' = 1
    /\ pc' = "loop"
    /\ UNCHANGED <<manifest, wall, cfg, run, poll, err, calls, published, writes, hist>>

----------------------------------------------------------------------------
(* main(): the schedule test of one row, lines 82-96 *)

Posted(r) == parse_bool(Get(r, "posted", "false"))

SchedRaw(r) == Get(r, "scheduled_time_ist", "")

SchedStr(r) == Strip(SchedRaw(r))

\* the row reaches line 98
IsDue(r, now) ==
    /\ ~Posted(r)
    /\ SchedRaw(r) # NONE
    /\ SchedStr(r) # ""
    /\ SchedParses(SchedStr(r))
    /\ ~(now < Strptime(SchedStr(r)))

\* lines 98-101: .strip() of a None field raises AttributeError
FieldsStrip(r) ==
    /\ Get(r, "video_url", "") # NONE
    /\ Get(r, "caption", "") # NONE
    /\ Get(r, "cover_url", "") # NONE

InLoop == pc = "loop" /\ idx <= Len(rows)

\* continue
Continue ==
    /\ idx' = idx + 1
    /\ pc' = "loop"
    /\ UNCHANGED <<manifest, wall, cfg, run, rows, loaded, now_ist, changed, poll, err,
                   calls, published, writes, hist>>

\* an exception leaves main(): the process ends, nothing is written
Raise(e) ==
    /\ pc' = "crashed"
    /\ err' = e

\* lines 82-83
SkipPosted ==
    /\ InLoop
    /\ Posted(rows[idx])
    /\ Continue

\* line 86: None.strip()
RaiseMissingSched ==
    /\ InLoop
    /\ ~Posted(rows[idx])
    /\ SchedRaw(rows[idx]) = NONE
    /\ Raise("AttributeError")
    /\ UNCHANGED <<manifest, wall, cfg, run, rows, loaded, now_ist, changed, idx, poll,
                   calls, published, writes, hist>>

\* lines 87-88
SkipEmptySched ==
    /\ InLoop
    /\ ~Posted(rows[idx])
    /\ SchedRaw(rows[idx]) # NONE
    /\ SchedStr(rows[idx]) = ""
    /\ Continue

\* lines 89-93
SkipBadTime ==
    /\ InLoop
    /\ ~Posted(rows[idx])
    /\ SchedRaw(rows[idx]) # NONE
    /\ SchedStr(rows[idx]) # ""
    /\ ~SchedParses(SchedStr(rows[idx]))
    /\ Continue

\* lines 95-96
SkipNotDue ==
    /\ InLoop
    /\ ~Posted(rows[idx])
    /\ SchedRaw(rows[idx]) # NONE
    /\ SchedStr(rows[idx]) # ""
    /\ SchedParses(SchedStr(rows[idx]))
    /\ now_ist < Strptime(SchedStr(rows[idx]))
    /\ Continue

\* lines 98-101 raise on a None field
RaiseMissingField ==
    /\ InLoop
    /\ IsDue(rows[idx], now_ist)
    /\ ~FieldsStrip(rows[idx])
    /\ Raise("AttributeError")
    /\ UNCHANGED <<manifest, wall, cfg, run, rows, loaded, now_ist, changed, idx, poll,
                   calls, published, writes, hist>>

\* lines 98-103
BeginDue ==
    /\ InLoop
    /\ IsDue(rows[idx], now_ist)
    /\ FieldsStrip(rows[idx])
    /\ pc' = "create"
    /\ UNCHANGED <<manifest, wall, cfg, run, rows, loaded, now_ist, changed, idx, poll, err,
                   calls, published, writes, hist>>

----------------------------------------------------------------------------
(* create_reel_container, lines 21-37, called at line 104 *)

mainFrame == <<manifest, wall, cfg, run, rows, loaded, now_ist, changed, idx>>

\* the request succeeds and the response carries an id
CreateOk ==
    /\ pc = "create"
    /\ calls' = Append(calls, Call("create", idx, 0))
    /\ nextCid' = nextCid + 1
    /\ container_id' = nextCid + 1
    /\ script' \in Scripts
    /\ served' = 0
    /\ pc' = "poll"
    /\ UNCHANGED <<mainFrame, clock, start, status, exact, err, published, writes,
                   pubCount, prev>>

\* bug: the failure of the create request is ignored and polling starts
\* without a container id
CreateFailIgnored ==
    /\ pc = "create"
    /\ calls' = Append(calls, Call("create", idx, 0))
    /\ pc' = "poll"
    /\ UNCHANGED <<mainFrame, poll, err, published, writes, hist>>

\* requests raises, raise_for_status() raises, or the response has no "id"
CreateFail ==
    /\ pc = "create"
    /\ calls' = Append(calls, Call("create", idx, 0))
    /\ Raise("CreateError")
    /\ UNCHANGED <<mainFrame, poll, published, writes, hist>>

----------------------------------------------------------------------------
(* poll_container_ready, lines 40-55, called at line 108 *)

\* bug: gives up when the next poll would fall after the deadline
TimedOutEarly(now, begin, timeout) == now - begin + POLL_INTERVAL > timeout

\* bug: one more interval is granted after the deadline
TimedOutLate(now, begin, timeout) == now - begin > timeout + POLL_INTERVAL

\* bug: twice the configured budget is granted
TimedOutDouble(now, begin, timeout) == now - begin > 2 * timeout

\* line 53
TimedOut(now, begin, timeout) == now - begin > timeout

\* lines 42-44; only differences of time.time() are ever used, so the clock
\* is read as 0 here
PollBegin ==
    /\ pc = "poll"
    /\ clock' = 0
    /\ start' = clock'
    /\ exact' = TRUE
    /\ pc' = "get"
    /\ UNCHANGED <<mainFrame, container_id, status, remote, err, calls, published,
                   writes, hist>>

\* lines 46-48: one status query; the request takes d seconds
GetStatus ==
    /\ pc = "get"
    /\ calls' = Append(calls, Call("status", idx, container_id))
    /\ \E d \in ReqDelays :
          /\ clock' = clock + d
          /\ exact' = (exact /\ d = 0)
    /\ served' = served + 1
    /\ status' = Response(script, served + 1)
    /\ pc' = "got"
    /\ UNCHANGED <<mainFrame, container_id, start, script, err, published, writes, hist>>

\* lines 46-47 raise
PollHttpError ==
    /\ pc = "got"
    /\ status = HTTPError
    /\ Raise("TransportError")
    /\ UNCHANGED <<mainFrame, poll, calls, published, writes, hist>>

\* lines 49-50
PollFinished ==
    /\ pc = "got"
    /\ status = "FINISHED"
    /\ pc' = "publish"
    /\ UNCHANGED <<mainFrame, poll, err, calls, published, writes, hist>>

\* bug: ERROR and EXPIRED are taken for transient and polled again
PollContainerFailedRetry ==
    /\ pc = "got"
    /\ status \in {"ERROR", "EXPIRED"}
    /\ clock' = clock + POLL_INTERVAL
    /\ pc' = "get"
    /\ UNCHANGED <<mainFrame, container_id, start, status, exact, remote, err, calls,
                   published, writes, hist>>

\* bug: every status that is not FINISHED or IN_PROGRESS fails the container
PollContainerFailedStrict ==
    /\ pc = "got"
    /\ status \notin {HTTPError, "FINISHED", "IN_PROGRESS"}
    /\ Raise("RuntimeError")
    /\ UNCHANGED <<mainFrame, poll, calls, published, writes, hist>>

\* lines 51-52
PollContainerFailed ==
    /\ pc = "got"
    /\ status \in {"ERROR", "EXPIRED"}
    /\ Raise("RuntimeError")
    /\ UNCHANGED <<mainFrame, poll, calls, published, writes, hist>>

\* lines 53-54
PollTimeout ==
    /\ pc = "got"
    /\ status \notin {HTTPError, "FINISHED", "ERROR", "EXPIRED"}
    /\ TimedOut(clock, start, POLL_TIMEOUT)
    /\ Raise("TimeoutError")
    /\ UNCHANGED <<mainFrame, poll, calls, published, writes, hist>>

\* bug: a second status query, whose answer is dropped, before sleeping
PollSleepRequery ==
    /\ pc = "got"
    /\ status \notin {HTTPError, "FINISHED", "ERROR", "EXPIRED"}
    /\ ~TimedOut(clock, start, POLL_TIMEOUT)
    /\ calls' = Append(calls, Call("status", idx, container_id))
    /\ served' = served + 1
    /\ clock' = clock + POLL_INTERVAL
    /\ pc' = "get"
    /\ UNCHANGED <<mainFrame, container_id, start, status, exact, script, err, published,
                   writes, hist>>

\* line 55, then the next iteration of the while loop
PollSleep ==
    /\ pc = "got"
    /\ status \notin {HTTPError, "FINISHED", "ERROR", "EXPIRED"}
    /\ ~TimedOut(clock, start, POLL_TIMEOUT)
    /\ clock' = clock + POLL_INTERVAL
    /\ pc' = "get"
    /\ UNCHANGED <<mainFrame, container_id, start, status, exact, remote, err, calls,
                   published, writes, hist>>

----------------------------------------------------------------------------
(* publish_container, lines 58-63, called at line 111 *)

PublishOk ==
    /\ pc = "publish"
    /\ calls' = Append(calls, Call("publish", idx, container_id))
    /\ published' = published \cup {idx}
    /\ pubCount' = [pubCount EXCEPT ![idx] = @ + 1]
    /\ pc' = "mark"
    /\ UNCHANGED <<mainFrame, poll, err, writes, nextCid, prev>>

\* bug: the error of the publish request is swallowed
PublishFailIgnored ==
    /\ pc = "publish"
    /\ calls' = Append(calls, Call("publish", idx, container_id))
    /\ pc' = "mark"
    /\ UNCHANGED <<mainFrame, poll, err, published, writes, hist>>

PublishFail ==
    /\ pc = "publish"
    /\ calls' = Append(calls, Call("publish", idx, container_id))
    /\ Raise("PublishError")
    /\ UNCHANGED <<mainFrame, poll, published, writes, hist>>

----------------------------------------------------------------------------
(* main(): lines 114-115 *)

\* bug: every row is marked
SetPostedAll(rs, j) == [n \in 1..Len(rs) |-> [rs[n] EXCEPT !["posted"] = "true"]]

\* bug: a value parse_bool does not read as true
SetPostedDone(rs, j) == [rs EXCEPT ![j]["posted"] = "done"]

SetPosted(rs, j) == [rs EXCEPT ![j]["posted"] = "true"]

\* bug: the batch is not marked as changed
MarkNotDirty ==
    /\ pc = "mark"
    /\ rows' = SetPosted(rows, idx)
    /\ idx' = idx + 1
    /\ pc' = "loop"
    /\ container_id' = 0
    /\ clock' = 0
    /\ start' = 0
    /\ status' = ""
    /\ exact' = TRUE
    /\ script' = NoScript
    /\ served' = 0
    /\ UNCHANGED <<manifest, wall, cfg, run, loaded, now_ist, changed, err, calls,
                   published, writes, hist>>

\* container_id and what belonged to its poll are dead after the iteration
\* and are cleared
Mark ==
    /\ pc = "mark"
    /\ rows' = SetPosted(rows, idx)
    /\ changed' = TRUE
    /\ idx' = idx + 1
    /\ pc' = "loop"
    /\ container_id' = 0
    /\ clock' = 0
    /\ start' = 0
    /\ status' = ""
    /\ exact' = TRUE
    /\ script' = NoScript
    /\ served' = 0
    /\ UNCHANGED <<manifest, wall, cfg, run, loaded, now_ist, err, calls, published,
                   writes, hist>>

----------------------------------------------------------------------------
(* main(): lines 117-126 *)

LoopDone == pc = "loop" /\ idx > Len(rows)

\* bug: the manifest is rewritten whether or not a row changed
SaveManifestAlways ==
    /\ LoopDone
    /\ manifest' = WriteRows(rows)
    /\ writes' = writes + 1
    /\ pc' = "done"
    /\ UNCHANGED <<wall, cfg, run, rows, loaded, now_ist, changed, idx, poll, err, calls,
                   published, hist>>

SaveManifest ==
    /\ LoopDone
    /\ changed
    /\ manifest' = WriteRows(rows)
    /\ writes' = writes + 1
    /\ pc' = "done"
    /\ UNCHANGED <<wall, cfg, run, rows, loaded, now_ist, changed, idx, poll, err, calls,
                   published, hist>>

NothingDue ==
    /\ LoopDone
    /\ ~changed
    /\ pc' = "done"
    /\ UNCHANGED <<manifest, wall, cfg, run, rows, loaded, now_ist, changed, idx, poll, err,
                   calls, published, writes, hist>>

----------------------------------------------------------------------------
(* the script is started again *)

RunEnded == pc \in {"done", "crashed"}

NextRun ==
    /\ RunEnded
    /\ run < MaxRuns
    /\ run' = run + 1
    /\ \E d \in Waits : wall' = wall + d
    /\ prev_end' = IF pc = "done" THEN "done"
                    ELSE IF err \in RemoteErrors THEN "failed" ELSE "raised"
    /\ prev_now' = now_ist
    /\ prev_idx' = IF pc = "crashed" /\ err \in RemoteErrors THEN idx ELSE 0
    /\ pc' = "start"
    /\ rows' = <<>>
    /\ loaded' = <<>>
    /\ now_ist' = 0
    /\ changed' = FALSE
    /\ idx' = 0
    /\ container_id' = 0
    /\ clock' = 0
    /\ start' = 0
    /\ status' = ""
    /\ exact' = TRUE
    /\ script' = NoScript
    /\ served' = 0
    /\ err' = ""
    /\ calls' = <<>>
    /\ published' = {}
    /\ writes' = 0
    /\ nextCid' = 0
    /\ UNCHANGED <<manifest, cfg, pubCount>>

----------------------------------------------------------------------------
Next ==
    \/ Load
    \/ SkipPosted
    \/ RaiseMissingSched
    \/ SkipEmptySched
    \/ SkipBadTime
    \/ SkipNotDue
    \/ RaiseMissingField
    \/ BeginDue
    \/ CreateOk
    \/ CreateFail
    \/ PollBegin
    \/ GetStatus
    \/ PollHttpError
    \/ PollFinished
    \/ PollContainerFailed
    \/ PollTimeout
    \/ PollSleep
    \/ PublishOk
    \/ PublishFail
    \/ Mark
    \/ SaveManifest
    \/ NothingDue
    \/ NextRun

Spec == Init /\ [][Next]_vars

\* the steps of one run of main()
RunStep ==
    \/ Load
    \/ SkipPosted
    \/ RaiseMissingSched
    \/ SkipEmptySched
    \/ SkipBadTime
    \/ SkipNotDue
    \/ RaiseMissingField
    \/ BeginDue
    \/ CreateOk
    \/ CreateFail
    \/ PollBegin
    \/ GetStatus
    \/ PollHttpError
    \/ PollFinished
    \/ PollContainerFailed
    \/ PollTimeout
    \/ PollSleep
    \/ PublishOk
    \/ PublishFail
    \/ Mark
    \/ SaveManifest
    \/ NothingDue

\* a single run of main() on a manifest of up to MaxRows records
SpecRun == Init /\ [][RunStep]_vars

\* poll_container_ready, once entered, keeps executing: every request has a
\* timeout (line 46) and every sleep ends
PollStep ==
    \/ PollBegin
    \/ GetStatus
    \/ PollHttpError
    \/ PollFinished
    \/ PollContainerFailed
    \/ PollTimeout
    \/ PollSleep

SpecPoll == InitSingle /\ [][Next]_vars /\ WF_vars(PollStep)

SpecSingle == InitSingle /\ [][Next]_vars

----------------------------------------------------------------------------
(* Properties *)

\* requests of kind op this run has issued for row j
NumCalls(op, j) == Cardinality({n \in DOMAIN calls : calls[n].op = op /\ calls[n].row = j})

\* requests of any kind this run has issued for row j
NumRowCalls(j) == Cardinality({n \in DOMAIN calls : calls[n].row = j})

\* a row as csv.DictWriter writes it
Written(r) == [k \in Columns |-> CsvField(r[k])]

\* C1: when a remote call fails for one record, every later due record of the
\* manifest still gets its own create call before the run is over.
C1_FailureIsolation ==
    (pc = "crashed" /\ err \in RemoteErrors) =>
        \A j \in (idx + 1)..Len(loaded) :
            IsDue(loaded[j], now_ist) => NumCalls("create", j) > 0

\* C2: a run in which a publish succeeded ends with the manifest written and
\* every published record stored as posted, whatever the remote answered for
\* the other records.
C2_DurabilityOfSuccess ==
    (RunEnded /\ published # {} /\ err # "AttributeError") =>
        /\ writes = 1
        /\ \A j \in published : Posted(manifest[j])

C4_PostedOnlyAfterPublish ==
    [][ /\ (pc # "start" /\ ~RunEnded) =>
             \A j \in DOMAIN rows :
                 rows'[j]["posted"] # rows[j]["posted"] =>
                     /\ ~Posted(rows[j])
                     /\ Posted(rows'[j])
                     /\ j \in published
                     /\ calls[Len(calls)] = Call("publish", j, container_id)
        /\ \A j \in DOMAIN manifest :
               manifest'[j]["posted"] # manifest[j]["posted"] =>
                   /\ ~Posted(manifest[j])
                   /\ Posted(manifest'[j])
                   /\ j \in published
      ]_vars

C4_Witness ==
    /\ pc = "done"
    /\ \E j \in DOMAIN loaded : ~Posted(loaded[j]) /\ Posted(rows[j]) /\ Posted(manifest[j])

\* the schedule of an unposted row is missing, empty or does not parse
BadSchedule(r) ==
    /\ ~Posted(r)
    /\ \/ SchedRaw(r) = NONE
       \/ SchedStr(r) = ""
       \/ ~SchedParses(SchedStr(r))

\* C5: an unposted record whose scheduled time is empty, missing or unparsable
\* gets no remote call, stays unposted and does not stop the run.
C5_BadScheduleSkipped ==
    \A j \in DOMAIN loaded :
        BadSchedule(loaded[j]) =>
            /\ NumRowCalls(j) = 0
            /\ ~Posted(rows[j])
            /\ ~(pc = "crashed" /\ idx = j)

\* C6: a record whose lifecycle failed stays unposted in memory and in the
\* manifest, is due again in the next run, and the next run issues a create
\* call for it.
C6_FailedRecordRetried ==
    /\ (pc = "crashed" /\ err \in RemoteErrors) =>
           ~Posted(rows[idx]) /\ ~Posted(manifest[idx])
    /\ (run > 1 /\ prev_end = "failed" /\ pc # "start") =>
           IsDue(loaded[prev_idx], now_ist)
    /\ (run > 1 /\ prev_end = "failed" /\ RunEnded) =>
           NumCalls("create", prev_idx) > 0

\* the part of C6 about the record itself
C6_FailedRecordStaysDue ==
    /\ (pc = "crashed" /\ err \in RemoteErrors) =>
           ~Posted(rows[idx]) /\ ~Posted(manifest[idx])
    /\ (run > 1 /\ prev_end = "failed" /\ pc # "start") =>
           IsDue(loaded[prev_idx], now_ist)

\* C7: a run writes the manifest at most once, only when the loop is over and
\* only when a row was flipped; a run that flipped no row writes nothing.
C7_WriteOnceIfDirty ==
    /\ writes <= 1
    /\ writes = 1 =>
           /\ pc = "done"
           /\ idx = Len(rows) + 1
           /\ changed
           /\ \E j \in DOMAIN rows : rows[j]["posted"] # loaded[j]["posted"]
    /\ (pc # "start" /\ writes = 0) => manifest = loaded
    /\ (RunEnded /\ rows = loaded) => writes = 0

C7_Witness == pc = "done" /\ writes = 1 /\ Len(rows) > 1

\* the scheduled time of the row lies after the previous run and not after this one
NewlyDue(r) ==
    /\ SchedRaw(r) # NONE
    /\ SchedParses(SchedStr(r))
    /\ prev_now < Strptime(SchedStr(r))
    /\ Strptime(SchedStr(r)) <= now_ist

\* C8: a run that follows a completed run, with no record newly due, keeps the
\* dirty flag false, issues no remote call and writes nothing.
C8_SecondRunIdle ==
    (run > 1 /\ prev_end = "done" /\ pc # "start"
        /\ \A j \in DOMAIN loaded : ~NewlyDue(loaded[j])) =>
        /\ calls = <<>>
        /\ ~changed
        /\ writes = 0

C8_Witness ==
    /\ run > 1
    /\ prev_end = "done"
    /\ pc = "done"
    /\ \A j \in DOMAIN loaded : ~NewlyDue(loaded[j])
    /\ \E j \in DOMAIN loaded : pubCount[j] = 1 /\ Posted(loaded[j])

\* the current container answers IN_PROGRESS forever
AlwaysInProgress == script.pending = 0 /\ script.final = "IN_PROGRESS"

\* C9's setting: timeout 20 s, interval 8 s, a clock that only the sleeps
\* advance, status always IN_PROGRESS
C9_Setting ==
    /\ POLL_TIMEOUT = TestPollTimeout
    /\ POLL_INTERVAL = DefaultPollInterval
    /\ container_id # 0
    /\ AlwaysInProgress
    /\ exact

\* C9 as stated: the timeout is raised after at most 3 status queries.
C9_TimeoutAfterThreePolls ==
    (C9_Setting /\ pc = "crashed" /\ err = "TimeoutError") =>
        NumCalls("status", idx) <= 3

\* C9 amended: the controller never calls publish and ends with a timeout,
\* raised after exactly 4 status queries (at 0, 8, 16 and 24 s), 24 s after the
\* poll began.
C9_TimeoutAfterFourPolls ==
    C9_Setting =>
        /\ NumCalls("status", idx) <= 4
        /\ NumCalls("publish", idx) = 0
        /\ pc \in {"poll", "get", "got", "crashed"}
        /\ pc = "crashed" =>
               /\ err = "TimeoutError"
               /\ NumCalls("status", idx) = 4
               /\ clock - start = 24

C9_Witness == C9_Setting /\ pc = "crashed" /\ err = "TimeoutError"

\* C10: a container that answers n non-terminal statuses and then FINISHED is
\* queried n+1 times and, unless the timeout has passed before FINISHED is
\* seen, published with exactly one publish call after the last query; with
\* [IN_PROGRESS, IN_PROGRESS, FINISHED], interval 8 s and timeout 180 s there
\* are exactly 3 status queries before the publish call.
C10_PollsThenPublishes ==
    (container_id # 0 /\ script.final = "FINISHED") =>
        /\ NumCalls("status", idx) <= script.pending + 1
        /\ NumCalls("publish", idx) <= 1
        /\ pc = "publish" =>
               /\ NumCalls("status", idx) = script.pending + 1
               /\ NumCalls("publish", idx) = 0
        /\ NumCalls("publish", idx) = 1 =>
               /\ NumCalls("status", idx) = script.pending + 1
               /\ calls[Len(calls)] = Call("publish", idx, container_id)
        /\ pc = "crashed" =>
               \/ err = "PublishError" /\ NumCalls("publish", idx) = 1
               \/ /\ err = "TimeoutError"
                  /\ clock - start > POLL_TIMEOUT
                  /\ NumCalls("status", idx) <= script.pending
        /\ (POLL_TIMEOUT = DefaultPollTimeout /\ POLL_INTERVAL = DefaultPollInterval
              /\ script.pending = 2 /\ script.busy = "IN_PROGRESS") =>
               /\ err # "TimeoutError"
               /\ pc = "publish" => NumCalls("status", idx) = 3

C10_Witness ==
    /\ pc = "mark"
    /\ POLL_TIMEOUT = DefaultPollTimeout
    /\ script = [pending |-> 2, busy |-> "IN_PROGRESS", final |-> "FINISHED"]
    /\ NumCalls("status", idx) = 3
    /\ NumCalls("publish", idx) = 1


----------------------------------------------------------------------------
(* C11: a status query that returns ERROR or EXPIRED, on the first poll or a
   later one, is the last request made for its container: the controller is
   at that answer or has failed with the container error that carries it, no
   status query follows, publish is never called for the container, and the
   record stays unposted in memory and in the manifest. *)
C11_ContainerFailureIsFinal ==
    (container_id # 0 /\ status \in {"ERROR", "EXPIRED"}) =>
        /\ pc \in {"got", "crashed"}
        /\ pc = "crashed" => err = "RuntimeError"
        /\ status = script.final
        /\ served = script.pending + 1
        /\ NumCalls("status", idx) = served
        /\ calls[Len(calls)] = Call("status", idx, container_id)
        /\ NumCalls("publish", idx) = 0
        /\ idx \notin published
        /\ ~Posted(rows[idx])
        /\ ~Posted(manifest[idx])

\* EXPIRED on the first poll, and ERROR on a later one, have failed the run
C11_Witness ==
    /\ pc = "crashed"
    /\ err = "RuntimeError"
    /\ \/ status = "EXPIRED" /\ NumCalls("status", idx) = 1
       \/ status = "ERROR" /\ NumCalls("status", idx) > 1
    /\ NumCalls("publish", idx) = 0


----------------------------------------------------------------------------
\* row j of the manifest is unposted and its scheduled time parses
Schedulable(j) ==
    /\ ~Posted(loaded[j])
    /\ SchedRaw(loaded[j]) # NONE
    /\ SchedStr(loaded[j]) # ""
    /\ SchedParses(SchedStr(loaded[j]))

(* C12: an unposted record with a parsable scheduled time is treated as due
   exactly when the wall clock, truncated to the minute, is at or after the
   scheduled time.  A record with now < scheduled time gets no remote call and
   does not stop the run; a record at or past its time, however old, reaches
   the due branch: its create call is issued once (or the preparation of its
   fields raises at that record). *)
C12_DueIffNowAtOrAfterSchedule ==
    pc # "start" =>
        \A j \in 1..Len(loaded) :
            IF j > idx \/ (j = idx /\ pc = "loop")
            THEN \A n \in DOMAIN calls : calls[n].row # j
            ELSE Schedulable(j) =>
                    IF wall \div 60 < Strptime(SchedStr(loaded[j]))
                    THEN /\ j < idx
                         /\ \A n \in DOMAIN calls : calls[n].row # j
                    ELSE IF ~FieldsStrip(loaded[j])
                    THEN idx = j /\ pc = "crashed" /\ err = "AttributeError"
                    ELSE IF j = idx /\ pc = "create"
                    THEN \A n \in DOMAIN calls : calls[n].row # j
                    ELSE NumCalls("create", j) = 1

\* the record was not yet due when the previous run passed over it, and is
\* due in this run, which has issued its create call
C12_Witness ==
    /\ run > 1
    /\ prev_end = "done"
    /\ Len(loaded) = 1
    /\ Schedulable(1)
    /\ prev_now < Strptime(SchedStr(loaded[1]))
    /\ wall \div 60 >= Strptime(SchedStr(loaded[1]))
    /\ NumCalls("create", 1) = 1

----------------------------------------------------------------------------
\* the manifest holds one record, which is due
OneDueRecord ==
    /\ Len(loaded) = 1
    /\ IsDue(loaded[1], now_ist)
    /\ FieldsStrip(loaded[1])

\* the container reports FINISHED on the first status query
FinishedAtOnce ==
    /\ container_id # 0
    /\ script = [pending |-> 0, busy |-> "IN_PROGRESS", final |-> "FINISHED"]

(* C13: for a manifest of one due unposted record whose container is created
   and reports FINISHED on the first status query, the run issues one create
   call, then one status call, then one publish call, each for that record and
   the last two with the created container; once publish has returned a media
   id, the record is marked posted, the batch is dirty, no further call is
   made, and the manifest is written exactly once with the record posted. *)
C13_EndToEnd ==
    OneDueRecord =>
        /\ FinishedAtOnce =>
              /\ pc \in {"poll", "get", "got", "publish", "mark", "crashed"}
              /\ pc \in {"poll", "get"} => calls = <<Call("create", 1, 0)>>
              /\ pc \in {"got", "publish"} =>
                    /\ calls = <<Call("create", 1, 0), Call("status", 1, container_id)>>
                    /\ status = "FINISHED"
              /\ pc \in {"mark", "crashed"} =>
                    calls = <<Call("create", 1, 0), Call("status", 1, container_id),
                              Call("publish", 1, container_id)>>
              /\ pc = "mark" => published = {1}
              /\ pc = "crashed" => err = "PublishError" /\ published = {}
              /\ writes = 0
        /\ (published = {1} /\ pc \in {"loop", "done"}) =>
              /\ idx = 2
              /\ Posted(rows[1])
              /\ changed
              /\ NumCalls("create", 1) = 1
              /\ NumCalls("publish", 1) = 1
              /\ Len(calls) = NumCalls("status", 1) + 2
              /\ calls[Len(calls)].op = "publish"
              /\ writes = (IF pc = "done" THEN 1 ELSE 0)
              /\ pc = "done" => manifest = WriteRows(SetPosted(loaded, 1))
                                 /\ Posted(manifest[1])

\* the run is over: create, status, publish, one write, the record posted
C13_Witness ==
    /\ OneDueRecord
    /\ pc = "done"
    /\ Len(calls) = 3
    /\ calls[1].op = "create" /\ calls[2].op = "status" /\ calls[3].op = "publish"
    /\ writes = 1
    /\ Posted(manifest[1])


----------------------------------------------------------------------------
(* C14: records are processed in the row order of the manifest and one at a
   time: the n-th record in memory is the n-th row of the manifest, every
   call is made for the record the loop is at or for an earlier one, the calls
   of a record at a lower row all precede those of a record at a higher row,
   and when the first call for a record is made the lifecycle of every earlier
   record that had calls is complete (its publish has returned). *)
C14_SequentialOrder ==
    pc # "start" =>
        /\ Len(rows) = Len(loaded)
        /\ \A j \in 1..Len(rows) :
              rows[j] = loaded[j] \/ (j \in published /\ rows[j] = SetPosted(loaded, j)[j])
        /\ calls # <<>> => calls[1].row >= 1 /\ calls[Len(calls)].row <= idx
        /\ idx <= Len(loaded) + 1
        /\ \A n \in 2..Len(calls) :
              /\ calls[n - 1].row <= calls[n].row
              /\ calls[n - 1].row < calls[n].row =>
                    /\ calls[n].op = "create"
                    /\ calls[n - 1].op = "publish"
                    /\ calls[n - 1].row \in published

\* two due records: the lifecycle of row 1 is complete and row 2's is under way
C14_Witness ==
    /\ Len(loaded) = 2
    /\ idx = 2
    /\ NumCalls("publish", 1) = 1
    /\ NumCalls("status", 2) > 1
    /\ pc = "publish"


----------------------------------------------------------------------------
----------------------------------------------------------------------------
(* C16: while the last answer for the current container is neither FINISHED
   nor ERROR nor EXPIRED (IN_PROGRESS, an undocumented value, or no status at
   all), no container error is raised and publish is not called: the
   controller is at that answer, or has slept the interval after it with the
   timeout not exceeded, or has failed with the timeout exceeded. *)
C16_OtherStatusIsNotFinished ==
    (container_id # 0 /\ status \in Busy) =>
        /\ pc \in {"got", "get", "crashed"}
        /\ NumCalls("publish", idx) = 0
        /\ idx \notin published
        /\ NumCalls("status", idx) = served
        /\ served >= 1
        /\ pc = "get" => clock - POLL_INTERVAL - start <= POLL_TIMEOUT
        /\ pc = "crashed" => err = "TimeoutError" /\ clock - start > POLL_TIMEOUT

\* slept after an undocumented status, and after a response without status
C16_Witness ==
    /\ pc = "get"
    /\ container_id # 0
    /\ status \in {"PUBLISHED", NONE}
    /\ served = 2


----------------------------------------------------------------------------
\* C17 as stated: once the time since polling began exceeds the timeout,
\* publish is never called for the container, whatever a late status query
\* reports.
C17_NoPublishPastDeadline ==
    (container_id # 0 /\ clock - start > POLL_TIMEOUT) =>
        /\ pc \notin {"publish", "mark"}
        /\ NumCalls("publish", idx) = 0

(* C17 amended: the deadline is tested only after a status query has
   returned a status that is not terminal.  With the timeout exceeded at such
   an answer the controller fails with a timeout error: it does not sleep,
   does not query again and never calls publish for the container.  A query
   that reports FINISHED is honoured, and the container published, even when
   the answer arrives after the deadline. *)
C17_TimeoutCutOff ==
    container_id # 0 =>
        /\ (status \in Busy /\ pc = "get") => clock - POLL_INTERVAL - start <= POLL_TIMEOUT
        /\ (status \in Busy /\ pc # "get" /\ clock - start > POLL_TIMEOUT) =>
              /\ pc \in {"got", "crashed"}
              /\ pc = "crashed" => err = "TimeoutError"
              /\ NumCalls("publish", idx) = 0
              /\ calls[Len(calls)] = Call("status", idx, container_id)
        /\ (pc = "crashed" /\ err = "TimeoutError") =>
              /\ status \in Busy
              /\ clock - start > POLL_TIMEOUT
              /\ NumCalls("publish", idx) = 0
        /\ pc \in {"publish", "mark"} => status = "FINISHED"

\* FINISHED was reported after the deadline and publish is being called
C17_Witness ==
    /\ container_id # 0
    /\ pc = "publish"
    /\ status = "FINISHED"
    /\ clock - start > POLL_TIMEOUT


----------------------------------------------------------------------------
\* create calls among the first n calls of the run; container ids are handed
\* out in this order
CreatesUpTo(n) == Cardinality({m \in 1..n : calls[m].op = "create"})

(* C18: within one record's lifecycle create is called once and first; every
   status query names the container that create returned; publish is called
   at most once, as the last call of the record, straight after a status query
   for the same container, and that query had answered FINISHED; after a
   failed create the record gets no status query and no publish call. *)
C18_ProtocolOrder ==
    /\ \A n \in DOMAIN calls :
          /\ calls[n].op = "create" =>
                /\ calls[n].cid = 0
                /\ n > 1 => calls[n - 1].row < calls[n].row
          /\ calls[n].op = "status" =>
                /\ n > 1
                /\ calls[n - 1].row = calls[n].row
                /\ calls[n].cid # 0
                /\ IF calls[n - 1].op = "create"
                   THEN calls[n].cid = CreatesUpTo(n)
                   ELSE calls[n - 1] = calls[n]
          /\ calls[n].op = "publish" =>
                /\ n > 1
                /\ calls[n - 1] = Call("status", calls[n].row, calls[n].cid)
                /\ n < Len(calls) => calls[n].row < calls[n + 1].row
          /\ (calls[n].row = idx /\ calls[n].op # "create") =>
                calls[n].cid = container_id
    /\ pc = "publish" =>
          /\ status = "FINISHED"
          /\ container_id # 0
          /\ calls[Len(calls)] = Call("status", idx, container_id)
    /\ (calls # <<>> /\ calls[Len(calls)] = Call("publish", idx, container_id)) =>
          /\ status = "FINISHED"
          /\ container_id # 0
          /\ pc \in {"mark", "crashed"}
          /\ pc = "crashed" => err = "PublishError"
    /\ (pc = "crashed" /\ err = "CreateError") =>
          /\ container_id = 0
          /\ calls[Len(calls)] = Call("create", idx, 0)

\* the second record of the run has gone through create, status and publish
\* with its own container
C18_Witness ==
    /\ pc = "mark"
    /\ idx = 2
    /\ container_id = 2
    /\ NumCalls("create", 1) = 1
    /\ NumCalls("status", 2) = 2
    /\ NumCalls("publish", 2) = 1


----------------------------------------------------------------------------
\* control is inside poll_container_ready
InPoll == pc \in {"poll", "get", "got"}

\* the most status queries one container can get
MaxPolls == POLL_TIMEOUT \div POLL_INTERVAL + 2

\* how poll_container_ready was left, when every query got a status response
C19_Exits ==
    (container_id # 0 /\ ~InPoll /\ status # HTTPError) =>
        /\ \/ pc \in {"publish", "mark"} /\ status = "FINISHED"
           \/ pc = "crashed" /\ err = "PublishError" /\ status = "FINISHED"
           \/ pc = "crashed" /\ err = "RuntimeError" /\ status \in {"ERROR", "EXPIRED"}
           \/ /\ pc = "crashed" /\ err = "TimeoutError"
              /\ status \in Busy
              /\ clock - start > POLL_TIMEOUT
        /\ script.final \in Busy => pc = "crashed" /\ err = "TimeoutError"

(* C19: poll_container_ready terminates whatever the status responses are.
   It never issues more than POLL_TIMEOUT / POLL_INTERVAL + 2 status queries
   for a container; it is left in one of three ways: FINISHED returned, the
   container error for ERROR or EXPIRED, or the timeout error; a container
   whose status never becomes terminal leaves it by the timeout only; and
   control that has entered it always leaves it. *)
C19_PollTerminates ==
    /\ [](POLL_INTERVAL > 0 /\ NumCalls("status", idx) <= MaxPolls)
    /\ []C19_Exits
    /\ InPoll ~> ~InPoll

\* under the default timeout a container that stays IN_PROGRESS was queried
\* the largest possible number of times before the timeout ended the loop
C19_Witness ==
    /\ POLL_TIMEOUT = DefaultPollTimeout
    /\ pc = "crashed"
    /\ err = "TimeoutError"
    /\ script.final \in Busy
    /\ NumCalls("status", idx) = MaxPolls


----------------------------------------------------------------------------
(* C20: over successive runs on the same manifest, whatever remote calls
   succeed or fail, publish succeeds at most once for any record: a record
   published in one run is not created or published again in a later run.
   (Runs that a malformed row ended are left aside; the remote failures the
   claim speaks of are enough.) *)
C20_PublishedAtMostOnce ==
    prev_end # "raised" =>
        /\ \A j \in DOMAIN pubCount : pubCount[j] <= 1
        /\ \A j \in DOMAIN pubCount :
              (pubCount[j] = 1 /\ j \notin published) => NumRowCalls(j) = 0

====
